---- MODULE Spec2Model ----
(***************************************************************************)
(* QuickenToModelPortfolioIII.py: the parser of Quicken's "Portfolio       *)
(* Value" export and the two reports built from it.                        *)
(*                                                                         *)
(* Input lines are strings, matched by the script's own regular            *)
(* expressions (written as syntax trees and run by a backtracking matcher  *)
(* with Python's priorities).  Dollar amounts are integers in cents; the   *)
(* script holds them as floats.                                            *)
(***************************************************************************)
EXTENDS Integers, Sequences, FiniteSets, TLC

(***************************************************************************)
(* Regular expressions (module re, as used by ParsePattern.match).         *)
(***************************************************************************)
Digit == {"0", "1", "2", "3", "4", "5", "6", "7", "8", "9"}

Upper == {"A", "B", "C", "D", "E", "F", "G", "H", "I", "J", "K", "L", "M",
          "N", "O", "P", "Q", "R", "S", "T", "U", "V", "W", "X", "Y", "Z"}

Lower == {"a", "b", "c", "d", "e", "f", "g", "h", "i", "j", "k", "l", "m",
          "n", "o", "p", "q", "r", "s", "t", "u", "v", "w", "x", "y", "z"}

\* \w
WordChar == Upper \cup Lower \cup Digit \cup {"_"}

\* \s (the vertical tab has no TLA+ string escape and is left out)
SpaceChar == {" ", "\t", "\n", "\r", "\f"}

Lit(str) == [t |-> "lit", s |-> str]

Cls(chars) == [t |-> "cls", c |-> chars]

AnyChar == [t |-> "any"]

EndOfLine == [t |-> "end"]

Opt(r) == [t |-> "opt", r |-> r]

Star(r) == [t |-> "star", r |-> r]

Plus(r) == [t |-> "plus", r |-> r]

Cat(rs) == [t |-> "cat", rs |-> rs]

CharAt(s, i) == SubSeq(s, i, i)

RECURSIVE Match(_, _, _), MatchEach(_, _, _, _), MatchCat(_, _, _, _)

\* The positions at which a match of r that starts at position i of s can
\* end (the position after its last character), in the order in which the
\* backtracking matcher tries them: greedy repetitions take the longest
\* first.
Match(r, s, i) ==
    CASE r.t = "lit" ->
           IF i + Len(r.s) - 1 <= Len(s) /\ SubSeq(s, i, i + Len(r.s) - 1) = r.s
           THEN <<i + Len(r.s)>> ELSE <<>>
      [] r.t = "cls" ->
           IF i <= Len(s) /\ CharAt(s, i) \in r.c THEN <<i + 1>> ELSE <<>>
      [] r.t = "any" ->
           IF i <= Len(s) /\ CharAt(s, i) # "\n" THEN <<i + 1>> ELSE <<>>
      [] r.t = "end" ->
           IF i = Len(s) + 1 \/ (i = Len(s) /\ CharAt(s, i) = "\n")
           THEN <<i>> ELSE <<>>
      [] r.t = "opt" -> Match(r.r, s, i) \o <<i>>
      [] r.t = "star" -> MatchEach(r, s, Match(r.r, s, i), i) \o <<i>>
      [] r.t = "plus" -> MatchEach(Star(r.r), s, Match(r.r, s, i), 0)
      [] r.t = "cat" -> MatchCat(r.rs, 1, s, i)

\* Match r from each position of js in turn (a repetition that consumed
\* nothing, ending at skip, is not repeated).
MatchEach(r, s, js, skip) ==
    IF js = <<>> THEN <<>>
    ELSE (IF Head(js) = skip THEN <<>> ELSE Match(r, s, Head(js)))
         \o MatchEach(r, s, Tail(js), skip)

\* rs[k], rs[k+1], ... one after the other from position i.
MatchCat(rs, k, s, i) ==
    IF k > Len(rs) THEN <<i>>
    ELSE IF k = Len(rs) THEN Match(rs[k], s, i)
    ELSE LET r == [t |-> "cat", rs |-> SubSeq(rs, k + 1, Len(rs))]
         IN  MatchEach(r, s, Match(rs[k], s, i), 0)

RECURSIVE FirstMatch(_, _, _, _), FirstOf(_, _, _, _)

\* pattern.match(line) for a pattern cut into parts at the boundaries of the
\* groups that are read: the end positions of parts k, k+1, ... in the first
\* match the backtracking matcher finds from position i, or <<>> when
\* nothing matches.  re.match anchors the start only.
FirstMatch(parts, k, s, i) ==
    IF k > Len(parts) THEN <<i>>
    ELSE FirstOf(parts, k, s, Match(parts[k], s, i))

FirstOf(parts, k, s, js) ==
    IF js = <<>> THEN <<>>
    ELSE LET rest == FirstMatch(parts, k + 1, s, Head(js))
         IN  IF rest # <<>> THEN <<Head(js)>> \o
                                 (IF k = Len(parts) THEN <<>> ELSE rest)
             ELSE FirstOf(parts, k, s, Tail(js))

\* The match object: <<>> is None.
ReMatch(parts, line) == FirstMatch(parts, 1, line, 1)

\* mtch.group(...) of the group that is part k of the pattern.
Group(parts, mtch, line, k) ==
    SubSeq(line, IF k = 1 THEN 1 ELSE mtch[k - 1], mtch[k] - 1)

(***************************************************************************)
(* The parse patterns.                                                     *)
(***************************************************************************)
Tabs == Plus(Lit("\t"))

Digits == Plus(Cls(Digit))

\* \d+(,\d\d\d)*.\d\d and \d+(,\d\d\d)*.\d\d\d: the dot is unescaped in the
\* source and matches any character.
Decimal(places) ==
    Cat(<<Digits,
          Star(Cat(<<Lit(","), Cls(Digit), Cls(Digit), Cls(Digit)>>)),
          AnyChar>>
        \o [k \in 1..places |-> Cls(Digit)])

\* r'Portfolio Value - As of (\d+\/\d+\/\d+)'; group 1 is part 2
TitleParsePattern ==
    <<Lit("Portfolio Value - As of "),
      Cat(<<Digits, Lit("/"), Digits, Lit("/"), Digits>>)>>

\* r'\t+-Cash-\t+(\d+(,\d\d\d)*.\d\d)'; group 1 is part 2
CashParsePattern ==
    <<Cat(<<Tabs, Lit("-Cash-"), Tabs>>),
      Decimal(2)>>

\* The security line; groups 1 (name), 2 (symbol), 3 (shares) and
\* 10 (balance) are parts 2, 4, 6 and 8.
SecurityParsePattern ==
    <<Tabs,
      Plus(Cls(WordChar \cup {"-", " "})),
      Tabs,
      Star(Cls(Upper \cup Digit \cup {":"})),
      Lit("\t"),
      Decimal(3),
      Cat(<<Lit("\t"), Digits, AnyChar, Cls(Digit), Cls(Digit), Cls(Digit),
            Lit("\t"), Opt(Lit("*")),
            Tabs, Opt(Lit("-")), Decimal(2),
            Tabs, Opt(Lit("-")), Decimal(2), Opt(Lit("*")),
            Tabs>>),
      Decimal(2)>>

\* Lines to ignore.  r'\t\TOTAL Investments': \T is the letter T.
IGNORE_PATTERNS ==
    <<<<Cat(<<Star(Cls(SpaceChar)), EndOfLine>>)>>,
      <<Lit("\tSecurity\tSymbol\tShares\tQuote/Price\test\tCost")>>,
      <<Lit("\t*Placeholder")>>,
      <<Lit("\tTOTAL Investments")>>>>

(***************************************************************************)
(* float(text.replace(',', '')), in cents.                                 *)
(***************************************************************************)
DigitValue ==
    [c \in Digit |->
        CASE c = "0" -> 0 [] c = "1" -> 1 [] c = "2" -> 2 [] c = "3" -> 3
          [] c = "4" -> 4 [] c = "5" -> 5 [] c = "6" -> 6 [] c = "7" -> 7
          [] c = "8" -> 8 [] c = "9" -> 9]

RECURSIVE StripCommas(_)

StripCommas(str) ==
    IF Len(str) = 0 THEN ""
    ELSE (IF CharAt(str, 1) = "," THEN "" ELSE CharAt(str, 1))
         \o StripCommas(SubSeq(str, 2, Len(str)))

AllDigits(str) == Len(str) > 0 /\ \A i \in 1..Len(str) : CharAt(str, i) \in Digit

RECURSIVE DigitsToInt(_)

DigitsToInt(str) ==
    IF Len(str) = 0 THEN 0
    ELSE 10 * DigitsToInt(SubSeq(str, 1, Len(str) - 1))
         + DigitValue[CharAt(str, Len(str))]

\* What float() raises on text that is no number.
ValueError == -1

\* float() of the texts the patterns let through: digits, or digits with a
\* two-digit fraction.  Anything else left by the any-character dot raises
\* ValueError (exponent forms such as 1e05 are not among the inputs).
Float(str) ==
    LET n == Len(str)
    IN  IF AllDigits(str) THEN 100 * DigitsToInt(str)
        ELSE IF /\ n >= 4
                /\ CharAt(str, n - 2) = "."
                /\ AllDigits(SubSeq(str, 1, n - 3))
                /\ AllDigits(SubSeq(str, n - 1, n))
        THEN 100 * DigitsToInt(SubSeq(str, 1, n - 3))
             + DigitsToInt(SubSeq(str, n - 1, n))
        ELSE ValueError

\* TitleParsePattern.match
TitleMatch(line) ==
    LET mtch == ReMatch(TitleParsePattern, line)
    IN  IF mtch = <<>> THEN [ok |-> FALSE]
        ELSE [ok |-> TRUE,
              report_date |-> Group(TitleParsePattern, mtch, line, 2)]

\* CashParsePattern.match
CashMatch(line) ==
    LET mtch == ReMatch(CashParsePattern, line)
    IN  IF mtch = <<>> THEN [ok |-> FALSE]
        ELSE [ok |-> TRUE,
              cash_value |->
                  Float(StripCommas(Group(CashParsePattern, mtch, line, 2)))]

\* SecurityParsePattern.match
SecurityMatch(line) ==
    LET mtch == ReMatch(SecurityParsePattern, line)
    IN  IF mtch = <<>> THEN [ok |-> FALSE]
        ELSE [ok |-> TRUE,
              symbol |-> Group(SecurityParsePattern, mtch, line, 4),
              name |-> Group(SecurityParsePattern, mtch, line, 2),
              dollars |->
                  Float(StripCommas(Group(SecurityParsePattern, mtch, line, 8)))]

(***************************************************************************)
(* The model portfolio and the symbol map.                                 *)
(***************************************************************************)
MODEL_PORTFOLIO_III ==
    [AKREX |-> [name |-> "Akre Focus Fund", percent |-> 5],
     VDAIX |-> [name |-> "Vanguard Dividend Appreciation", percent |-> 5],
     VFWIX |-> [name |-> "Vanguard FTSE All-World", percent |-> 10],
     VTSMX |-> [name |-> "Vanguard Total Stock Market", percent |-> 30],
     DLSNX |-> [name |-> "DoubleLine Low Duration Bond", percent |-> 20],
     MWCRX |-> [name |-> "MetroWest Unconstrained Bond", percent |-> 20],
     OSTIX |-> [name |-> "Osterweis Strategic Income Fund", percent |-> 10]]

MAP_SECURITY ==
    [s \in {"FSHBX", "FSICX", "SU", "QQQQ", "FUSVX", "FSTVX",
            "HONEYWEL:750021:TS"} |->
        CASE s = "FSHBX" -> "DLSNX"
          [] s = "FSICX" -> "OSTIX"
          [] OTHER -> "VTSMX"]

(***************************************************************************)
(* The input: lines of an exported report.                                 *)
(***************************************************************************)
TitleLine == "Portfolio Value - As of 1/31/2018\n"

CashLines ==
    {"\t-Cash-\t100.00\n",
     "\t-Cash-\t1,250.00\n",
     "\t-Cash-\t1x00\n"}

\* One holding for each symbol of the model portfolio, one for a mapped
\* symbol and one for a symbol with no map.
PortfolioLines ==
    <<"\tAkre Focus Fund\tAKREX\t5.000\t20.000\t\t90.00\t10.00\t100.00\n",
      "\tVanguard Dividend Appreciation\tVDAIX\t4.000\t25.000\t\t110.00\t-10.00\t100.00\n",
      "\tVanguard FTSE All-World\tVFWIX\t10.000\t20.000\t\t150.00\t50.00\t200.00\n",
      "\tVanguard Total Stock Market\tVTSMX\t10.000\t10.000\t\t90.00\t10.00\t100.00\n",
      "\tDoubleLine Low Duration Bond\tDLSNX\t40.000\t10.000\t*\t400.00\t0.00*\t400.00\n",
      "\tMetroWest Unconstrained Bond\tMWCRX\t40.000\t10.000\t\t380.00\t20.00\t400.00\n",
      "\tOsterweis Strategic Income Fund\tOSTIX\t20.000\t10.000\t\t200.00\t0.00\t200.00\n",
      "\tFidelity 500 Index\tFUSVX\t1,000.000\t0.700\t\t1,000.00\t-300.00\t700.00\n",
      "\tZ Corp\tZZZZ\t1.000\t50.000\t\t40.00\t10.00\t50.00\n">>

EmptySymbolLine ==
    "\tFidelity Cash Reserves\t\t0.000\t1.000\t\t0.00\t0.00\t0.00\n"

ZeroShareLine ==
    "\tAkre Focus Fund\tAKREX\t0.000\t20.000\t\t0.00\t0.00\t0.00\n"

\* Security lines of the short files: a model symbol, a mapped symbol, a
\* symbol with no map, no symbol at all, and no shares.
SecurityLines ==
    {PortfolioLines[4], PortfolioLines[8], PortfolioLines[9],
     EmptySymbolLine, ZeroShareLine}

IgnoredLines ==
    {"\n",
     "\tSecurity\tSymbol\tShares\tQuote/Price\test\tCost Basis\tGain/Loss\tBalance\n",
     "\t*Placeholder Entries for holdings amounts are incomplete\n",
     "\tTOTAL Investments\t\t\t\t\t2,000.00\t0.00\t2,000.00\n"}

OtherLines == {"Unrealized gains are estimates\n"}

SampleLines ==
    {TitleLine} \cup CashLines \cup SecurityLines \cup IgnoredLines
    \cup OtherLines

(***************************************************************************)
(* Bounds of the input.                                                    *)
(***************************************************************************)
\* Longest file made of arbitrary lines.
MaxLines == 3

ShortFiles == UNION {[1..n -> SampleLines] : n \in 0..MaxLines}

RECURSIVE Choose(_, _, _)

\* The lines of lines whose index is in picked, from index k on, in order.
Choose(lines, picked, k) ==
    IF k > Len(lines) THEN <<>>
    ELSE (IF k \in picked THEN <<lines[k]>> ELSE <<>>)
         \o Choose(lines, picked, k + 1)

\* A title, a cash line and any selection of the portfolio's holdings.
PortfolioFiles ==
    {<<TitleLine, "\t-Cash-\t100.00\n">> \o Choose(PortfolioLines, picked, 1) :
        picked \in SUBSET (1..Len(PortfolioLines))}

(***************************************************************************)
(* State.                                                                  *)
(***************************************************************************)
VARIABLES
    file,                  \* the lines of the input file
    pc,                    \* where the script is
    lineno,                \* lines of the file consumed by the for loop
    bound,                 \* which of the locals date, cash_value are bound
    date,                  \* report date (report_date once returned)
    cash_value,            \* cash in cents (the global cash once returned)
    security_dict,         \* symbol -> Security(name, balance in cents)
    networth,              \* current_holdings_report: sum of the balances
    actual_holdings,       \* Model Portfolio III symbol -> balance
    total_actual_percent,  \* current_holdings_report's running total
    todo,                  \* keys the current for loop has still to visit
    totals,                \* model_portfolio_3_report's running totals
    stdout,                \* what has been printed, as a set of lines
    error,                 \* the exception that ended the run, "" if none
    exit_status            \* <<>> while running, then <<status>>

vars == <<file, pc, lineno, bound, date, cash_value, security_dict, networth,
          actual_holdings, total_actual_percent, todo, totals, stdout, error,
          exit_status>>

parser_vars == <<lineno, bound, date, cash_value, security_dict>>

report_vars == <<networth, actual_holdings, total_actual_percent, todo, totals>>

\* A printed line: what it is and the symbol or text it carries.
Out(kind, text) == [kind |-> kind, text |-> text]

\* Security(name, balance)
Security(name, balance) == [name |-> name, balance |-> balance]

EmptyDict == [k \in {} |-> 0]

Put(dict, key, value) ==
    [k \in DOMAIN dict \cup {key} |-> IF k = key THEN value ELSE dict[k]]

Init ==
    /\ file \in ShortFiles \cup PortfolioFiles
    /\ pc = "parse"
    /\ lineno = 0
    /\ bound = {}
    /\ date = ""
    /\ cash_value = 0
    /\ security_dict = EmptyDict
    /\ networth = 0
    /\ actual_holdings = EmptyDict
    /\ total_actual_percent = 0
    /\ todo = {}
    /\ totals = [desired_value |-> 0, desired_percent |-> 0,
                 actual_percent |-> 0, actual_value |-> 0]
    /\ stdout = {}
    /\ error = ""
    /\ exit_status = <<>>

\* An uncaught exception: traceback, exit status 1.
Raise(exception) ==
    /\ pc' = "exited"
    /\ error' = exception
    /\ exit_status' = <<1>>

\* exit() with no argument raises SystemExit(None): exit status 0.
Exit ==
    /\ pc' = "exited"
    /\ error' = "SystemExit"
    /\ exit_status' = <<0>>

(***************************************************************************)
(* read_and_parse_input_file                                               *)
(***************************************************************************)
\* What the loop body does with a line, its patterns tried in the source's
\* order.  A ValueError of float() comes out of the match method.
Classify(line) ==
    LET title == TitleMatch(line)
        cashm == CashMatch(line)
        secm == SecurityMatch(line)
    IN  IF title.ok THEN [kind |-> "title", report_date |-> title.report_date]
        ELSE IF cashm.ok
        THEN IF cashm.cash_value = ValueError THEN [kind |-> "ValueError"]
             ELSE [kind |-> "cash", cash_value |-> cashm.cash_value]
        ELSE IF secm.ok
        THEN IF secm.dollars = ValueError THEN [kind |-> "ValueError"]
             ELSE [kind |-> "security", symbol |-> secm.symbol,
                   name |-> secm.name, dollars |-> secm.dollars]
        ELSE [kind |-> "other"]

\* Every line of the inputs, classified once.
Classified ==
    [line \in SampleLines \cup {PortfolioLines[k] : k \in 1..Len(PortfolioLines)}
        |-> Classify(line)]

\* pattern after "pattern = None; for pattern in IGNORE_PATTERNS: ... break":
\* the first pattern that matches or, when none does, the last one tried.
\* <<>> is None, which is left only by an empty list.
IgnoreLoopPattern(line) ==
    LET hits == {k \in 1..Len(IGNORE_PATTERNS) :
                    ReMatch(IGNORE_PATTERNS[k], line) # <<>>}
    IN  IF Len(IGNORE_PATTERNS) = 0 THEN <<>>
        ELSE IF hits # {} THEN <<CHOOSE k \in hits : \A j \in hits : k <= j>>
        ELSE <<Len(IGNORE_PATTERNS)>>

LoopPattern == [line \in SampleLines |-> IgnoreLoopPattern(line)]

\* A parser that adds the cash lines up.
StoreCash_Summed(old, new) == old + new

\* cash_value = cash_pattern.cash_value
StoreCash(old, new) == new

\* A parser without the test of the symbol.
StoreSecurity_NoSymbolTest(dict, sec) ==
    Put(dict, sec.symbol, Security(sec.name, sec.dollars))

\* A parser that also drops the lines of closed positions.
StoreSecurity_DropClosed(dict, sec) ==
    IF sec.symbol # "" /\ sec.dollars # 0
    THEN Put(dict, sec.symbol, Security(sec.name, sec.dollars))
    ELSE dict

\* security_dict[symbol] = Security(name, dollars) if there is a symbol
StoreSecurity(dict, sec) ==
    IF sec.symbol # "" THEN Put(dict, sec.symbol, Security(sec.name, sec.dollars))
    ELSE dict

Line == file[lineno + 1]

InLoop == pc = "parse" /\ lineno < Len(file)

ParseTitle ==
    /\ InLoop
    /\ Classified[Line].kind = "title"
    /\ date' = Classified[Line].report_date
    /\ bound' = bound \cup {"date"}
    /\ lineno' = lineno + 1
    /\ UNCHANGED <<file, pc, cash_value, security_dict, report_vars, stdout,
                   error, exit_status>>

ParseCash ==
    /\ InLoop
    /\ Classified[Line].kind = "cash"
    /\ cash_value' = StoreCash(cash_value, Classified[Line].cash_value)
    /\ bound' = bound \cup {"cash_value"}
    /\ lineno' = lineno + 1
    /\ UNCHANGED <<file, pc, date, security_dict, report_vars, stdout, error,
                   exit_status>>

ParseSecurity ==
    /\ InLoop
    /\ Classified[Line].kind = "security"
    /\ security_dict' = StoreSecurity(security_dict, Classified[Line])
    /\ lineno' = lineno + 1
    /\ UNCHANGED <<file, pc, bound, date, cash_value, report_vars, stdout,
                   error, exit_status>>

\* float() raises inside a match method
ParseValueError ==
    /\ InLoop
    /\ Classified[Line].kind = "ValueError"
    /\ Raise("ValueError")
    /\ UNCHANGED <<file, parser_vars, report_vars, stdout>>

\* No pattern matched: the loop over IGNORE_PATTERNS, then
\* "if pattern is None: print 'Unexpected line-->' + line; exit()".
ParseOther ==
    /\ InLoop
    /\ Classified[Line].kind = "other"
    /\ IF LoopPattern[Line] = <<>>
       THEN /\ stdout' = stdout \cup {Out("Unexpected line-->", Line)}
            /\ Exit
            /\ UNCHANGED lineno
       ELSE /\ lineno' = lineno + 1
            /\ UNCHANGED <<pc, stdout, error, exit_status>>
    /\ UNCHANGED <<file, bound, date, cash_value, security_dict, report_vars>>

\* return (date, cash_value, security_dict)
ParseReturn ==
    /\ pc = "parse"
    /\ lineno = Len(file)
    /\ {"date", "cash_value"} \subseteq bound
    /\ pc' = "holdings"
    /\ UNCHANGED <<file, parser_vars, report_vars, stdout, error, exit_status>>

\* the same with date or cash_value never assigned
ParseReturnUnbound ==
    /\ pc = "parse"
    /\ lineno = Len(file)
    /\ ~({"date", "cash_value"} \subseteq bound)
    /\ Raise("UnboundLocalError")
    /\ UNCHANGED <<file, parser_vars, report_vars, stdout>>

(***************************************************************************)
(* map_key_to_mp3, Percent                                                 *)
(***************************************************************************)
\* A map that hands an unknown symbol back instead of giving up.
map_key_to_mp3_NoExit(key2map) ==
    IF key2map \in DOMAIN MAP_SECURITY THEN <<MAP_SECURITY[key2map]>>
    ELSE <<key2map>>

\* <<symbol>> when the function returns, <<>> when it prints 'No map for
\* symbol' and calls exit().
map_key_to_mp3(key2map) ==
    IF key2map \in DOMAIN MODEL_PORTFOLIO_III THEN <<key2map>>
    ELSE IF key2map \in DOMAIN MAP_SECURITY THEN <<MAP_SECURITY[key2map]>>
    ELSE <<>>

\* int(numerator / denominator * 100 + 0.5), neither argument negative: the
\* quotient rounded half up, computed exactly.
Percent(numerator, denominator) ==
    (200 * numerator + denominator) \div (2 * denominator)

RECURSIVE SumBalances(_, _)

\* networth += security_dict[key].balance, for the keys given
SumBalances(dict, keys) ==
    IF keys = {} THEN 0
    ELSE LET key == CHOOSE k \in keys : TRUE
         IN  dict[key].balance + SumBalances(dict, keys \ {key})

\* An aggregation that overwrites.
Accumulate_Overwrite(holdings, actualskey, balance) ==
    Put(holdings, actualskey, balance)

\* actual_holdings[actualskey] += balance, or = balance for a new key
Accumulate(holdings, actualskey, balance) ==
    IF actualskey \in DOMAIN holdings
    THEN Put(holdings, actualskey, holdings[actualskey] + balance)
    ELSE Put(holdings, actualskey, balance)

(***************************************************************************)
(* current_holdings_report                                                 *)
(* The for loops visit a dictionary's keys in the order of its hash table, *)
(* which the program does not control: any order.                          *)
(***************************************************************************)
HoldingsStart ==
    /\ pc = "holdings"
    /\ networth' = SumBalances(security_dict, DOMAIN security_dict)
    /\ stdout' = stdout \cup {Out("ACTUAL HOLDINGS AS OF", date),
                              Out("holdings_columns", ""),
                              Out("holdings_line", "Symbol")}
    /\ actual_holdings' = EmptyDict
    /\ total_actual_percent' = 0
    /\ todo' = DOMAIN security_dict
    /\ pc' = "holdings_loop"
    /\ UNCHANGED <<file, parser_vars, totals, error, exit_status>>

HoldingsLine ==
    /\ pc = "holdings_loop"
    /\ \E key \in todo :
        LET actualskey == map_key_to_mp3(key)
            balance == security_dict[key].balance
        IN  /\ actualskey # <<>>
            /\ networth # 0
            /\ actual_holdings' = Accumulate(actual_holdings, actualskey[1], balance)
            /\ total_actual_percent' =
                   total_actual_percent + Percent(balance, networth)
            /\ stdout' = stdout \cup {Out("holdings_line", key)}
            /\ todo' = todo \ {key}
    /\ UNCHANGED <<file, pc, parser_vars, networth, totals, error, exit_status>>

\* map_key_to_mp3 finds no map
HoldingsNoMap ==
    /\ pc = "holdings_loop"
    /\ \E key \in todo :
        /\ map_key_to_mp3(key) = <<>>
        /\ stdout' = stdout \cup {Out("No map for symbol", key)}
    /\ Exit
    /\ UNCHANGED <<file, parser_vars, report_vars>>

\* Percent divides by a net worth of 0.0
HoldingsZeroDivision ==
    /\ pc = "holdings_loop"
    /\ \E key \in todo :
        LET actualskey == map_key_to_mp3(key)
        IN  /\ actualskey # <<>>
            /\ networth = 0
            /\ actual_holdings' = Accumulate(actual_holdings, actualskey[1],
                                             security_dict[key].balance)
    /\ Raise("ZeroDivisionError")
    /\ UNCHANGED <<file, parser_vars, networth, total_actual_percent, todo,
                   totals, stdout>>

\* after the loop: cash line, total line, the check of the total, return
HoldingsReturn ==
    /\ pc = "holdings_loop"
    /\ todo = {}
    /\ stdout' = stdout
                 \cup {Out("holdings_line", "Cash"), Out("holdings_line", "Total")}
                 \cup (IF total_actual_percent # 100
                       THEN {Out("Something is wrong. Total percent is not 100", "")}
                       ELSE {})
    /\ pc' = "mp3"
    /\ UNCHANGED <<file, parser_vars, report_vars, error, exit_status>>

(***************************************************************************)
(* model_portfolio_3_report                                                *)
(* desired_value is in hundredths of a cent: networth * percent / 100 is   *)
(* not a whole number of cents.                                            *)
(***************************************************************************)
Mp3Start ==
    /\ pc = "mp3"
    /\ stdout' = stdout \cup {Out("MODEL PORTFOLIO III", ""),
                              Out("mp3_columns", ""),
                              Out("mp3line", "Symbol")}
    /\ totals' = [desired_value |-> 0, desired_percent |-> 0,
                  actual_percent |-> 0, actual_value |-> 0]
    /\ todo' = DOMAIN MODEL_PORTFOLIO_III
    /\ pc' = "mp3_loop"
    /\ UNCHANGED <<file, parser_vars, networth, actual_holdings,
                   total_actual_percent, error, exit_status>>

Mp3Line ==
    /\ pc = "mp3_loop"
    /\ \E key \in todo :
        LET desiredpercent == MODEL_PORTFOLIO_III[key].percent
        IN  /\ key \in DOMAIN actual_holdings
            /\ IF networth = 0
               THEN /\ totals' =
                        [totals EXCEPT
                            !.desired_percent = @ + desiredpercent,
                            !.desired_value = @ + networth * desiredpercent]
                    /\ Raise("ZeroDivisionError")
                    /\ UNCHANGED <<todo, stdout>>
               ELSE /\ totals' =
                        [desired_percent |-> totals.desired_percent + desiredpercent,
                         desired_value |-> totals.desired_value
                                           + networth * desiredpercent,
                         actual_percent |-> totals.actual_percent
                                            + Percent(actual_holdings[key], networth),
                         actual_value |-> totals.actual_value + actual_holdings[key]]
                    /\ stdout' = stdout \cup {Out("mp3line", key)}
                    /\ todo' = todo \ {key}
                    /\ UNCHANGED <<pc, error, exit_status>>
    /\ UNCHANGED <<file, parser_vars, networth, actual_holdings,
                   total_actual_percent>>

\* actual_holdings[key] for a key no holding was mapped to
Mp3KeyError ==
    /\ pc = "mp3_loop"
    /\ \E key \in todo :
        /\ key \notin DOMAIN actual_holdings
        /\ totals' = [totals EXCEPT
                         !.desired_percent = @ + MODEL_PORTFOLIO_III[key].percent,
                         !.desired_value =
                             @ + networth * MODEL_PORTFOLIO_III[key].percent]
    /\ Raise("KeyError")
    /\ UNCHANGED <<file, parser_vars, networth, actual_holdings,
                   total_actual_percent, todo, stdout>>

\* after the loop: cash line, total line, the three checks; the script ends
Mp3Return ==
    /\ pc = "mp3_loop"
    /\ todo = {}
    /\ LET actual_value == totals.actual_value + cash_value
           desired_value == totals.desired_value + 100 * cash_value
       IN  /\ totals' = [totals EXCEPT !.actual_value = actual_value,
                                       !.desired_value = desired_value]
           /\ stdout' = stdout
                \cup {Out("mp3line", "Cash"), Out("mp3line", "Total")}
                \cup (IF actual_value # (desired_value + 50) \div 100
                      THEN {Out("Something is wrong.  Things don't add up.", "")}
                      ELSE {})
                \cup (IF totals.desired_percent # 100
                      THEN {Out("Something is wrong. Total desired percent is not 100", "")}
                      ELSE {})
                \cup (IF totals.actual_percent # 100
                      THEN {Out("Something is wrong. Total actual percent is not 100", "")}
                      ELSE {})
    /\ pc' = "exited"
    /\ exit_status' = <<0>>
    /\ UNCHANGED <<file, parser_vars, networth, actual_holdings,
                   total_actual_percent, todo, error>>

read_and_parse_input_file ==
    \/ ParseTitle \/ ParseCash \/ ParseSecurity \/ ParseValueError
    \/ ParseOther \/ ParseReturn \/ ParseReturnUnbound

current_holdings_report ==
    \/ HoldingsStart \/ HoldingsLine \/ HoldingsNoMap \/ HoldingsZeroDivision
    \/ HoldingsReturn

model_portfolio_3_report ==
    \/ Mp3Start \/ Mp3Line \/ Mp3KeyError \/ Mp3Return

Next ==
    \/ read_and_parse_input_file
    \/ current_holdings_report
    \/ model_portfolio_3_report

Spec == Init /\ [][Next]_vars

(***************************************************************************)
(* Properties.                                                             *)
(***************************************************************************)
AllLines == DOMAIN Classified

\* Lines that match none of the title, cash, security and ignore patterns.
UnrecognizedLines ==
    {line \in AllLines :
        /\ ~TitleMatch(line).ok
        /\ ~CashMatch(line).ok
        /\ ~SecurityMatch(line).ok
        /\ \A k \in 1..Len(IGNORE_PATTERNS) :
               ReMatch(IGNORE_PATTERNS[k], line) = <<>>}

\* The shares field (group 3) of a security line.
SharesField(line) ==
    LET mtch == ReMatch(SecurityParsePattern, line)
    IN  Group(SecurityParsePattern, mtch, line, 6)

\* Security lines whose shares field is zero.
ZeroShareLines ==
    {line \in AllLines :
        /\ Classified[line].kind = "security"
        /\ \A i \in 1..Len(SharesField(line)) :
               CharAt(SharesField(line), i) \notin (Digit \ {"0"})}

\* Is line i a security line that names symbol?
IsLineOf(i, symbol) ==
    /\ Classified[file[i]].kind = "security"
    /\ Classified[file[i]].symbol = symbol

\* The consumed lines that were the last to name their (non-empty) symbol.
LastLines ==
    {i \in 1..lineno :
        /\ Classified[file[i]].kind = "security"
        /\ Classified[file[i]].symbol # ""
        /\ \A j \in (i + 1)..lineno : ~IsLineOf(j, Classified[file[i]].symbol)}

Unmapped(symbol) ==
    symbol \notin DOMAIN MODEL_PORTFOLIO_III /\ symbol \notin DOMAIN MAP_SECURITY

\* C1: a line that matches no pattern is never consumed: the parser stops
\* at it with 'Unexpected line-->' and the line's text.
C1_UnrecognizedLineAborts ==
    \A i \in 1..Len(file) :
        file[i] \in UnrecognizedLines =>
            /\ lineno < i
            /\ pc # "parse" /\ lineno = i - 1 /\ error = "SystemExit" =>
                   Out("Unexpected line-->", file[i]) \in stdout

\* C2 as stated: no entry of the holdings was stored from a security line
\* whose shares field is zero.
C2_ZeroShareLineNotStored ==
    \A i \in LastLines :
        Classified[file[i]].symbol \in DOMAIN security_dict =>
            file[i] \notin ZeroShareLines

\* C2, amended: the holdings hold, for every non-empty symbol, the name and
\* balance of the last security line consumed with that symbol, zero shares
\* or not, and nothing else.
C2_ZeroShareLineStored ==
    /\ \A i \in LastLines :
           LET sec == Classified[file[i]]
           IN  /\ sec.symbol \in DOMAIN security_dict
               /\ security_dict[sec.symbol] = Security(sec.name, sec.dollars)
    /\ \A symbol \in DOMAIN security_dict :
           \E i \in LastLines : Classified[file[i]].symbol = symbol

\* C2's case: the parser has returned holdings with an entry that a
\* zero-share line stored.
C2_Witness ==
    /\ pc = "holdings"
    /\ \E i \in LastLines :
           /\ file[i] \in ZeroShareLines
           /\ Classified[file[i]].symbol \in DOMAIN security_dict

\* C3: once current_holdings_report has returned for holdings (at least
\* one) that all have a map, the keys of the aggregate are exactly the keys
\* of MODEL_PORTFOLIO_III.
C3_AggregateKeysAreModelKeys ==
    pc \in {"mp3", "mp3_loop"} /\ DOMAIN security_dict # {} =>
        DOMAIN actual_holdings = DOMAIN MODEL_PORTFOLIO_III

\* C4 as stated: a run that ends on a symbol without a map has printed the
\* message that names the symbol and nothing of the reports.
C4_NoOutputBeforeAbort ==
    error = "SystemExit" =>
        /\ \E symbol \in DOMAIN security_dict :
               Unmapped(symbol) /\ Out("No map for symbol", symbol) \in stdout
        /\ \A line \in stdout : line.kind = "No map for symbol"

\* C4, amended: with a holding whose symbol has no map the holdings report
\* is never completed and the model report never started; when the run ends
\* on that holding it has printed the message that names the symbol, after
\* the head of the holdings table and the lines of holdings that have a map.
C4_AbortAfterPartialHoldingsReport ==
    /\ (\E symbol \in DOMAIN security_dict : Unmapped(symbol)) =>
           /\ pc \notin {"mp3", "mp3_loop"}
           /\ pc = "exited" => error # ""
           /\ \A line \in stdout :
                  /\ line.kind \in {"ACTUAL HOLDINGS AS OF", "holdings_columns",
                                    "holdings_line", "No map for symbol"}
                  /\ line.kind = "holdings_line" =>
                         \/ line.text = "Symbol"
                         \/ /\ line.text \in DOMAIN security_dict
                            /\ ~Unmapped(line.text)
    /\ error = "SystemExit" =>
           /\ \E symbol \in DOMAIN security_dict :
                  /\ Unmapped(symbol)
                  /\ Out("No map for symbol", symbol) \in stdout
           /\ Out("ACTUAL HOLDINGS AS OF", date) \in stdout

\* C4's case: the run has ended on a symbol without a map after printing
\* the line of another holding.
C4_Witness ==
    /\ error = "SystemExit"
    /\ \E symbol \in DOMAIN security_dict :
           Out("holdings_line", symbol) \in stdout

\* The cash lines of the inputs and their amounts in cents.
CashCents ==
    [line \in {"\t-Cash-\t100.00\n", "\t-Cash-\t1,250.00\n"} |->
        IF line = "\t-Cash-\t100.00\n" THEN 10000 ELSE 125000]

\* C5: the cash value the parser returns is the amount of the last cash
\* line of the file.
C5_LastCashLineWins ==
    pc = "holdings" =>
        \E i \in 1..Len(file) :
            /\ file[i] \in DOMAIN CashCents
            /\ \A j \in (i + 1)..Len(file) : file[j] \notin CashLines
            /\ cash_value = CashCents[file[i]]

\* C5's case: the parser has returned from a file with two cash lines of
\* different amounts.
C5_Witness ==
    /\ pc = "holdings"
    /\ \E i, j \in 1..Len(file) :
           /\ i < j
           /\ file[i] \in DOMAIN CashCents
           /\ file[j] \in DOMAIN CashCents
           /\ file[i] # file[j]

RECURSIVE SumOf(_, _)

\* The sum of f over the keys given.
SumOf(f, keys) ==
    IF keys = {} THEN 0
    ELSE LET key == CHOOSE k \in keys : TRUE
         IN  f[key] + SumOf(f, keys \ {key})

Balances == [symbol \in DOMAIN security_dict |-> security_dict[symbol].balance]

\* The holdings whose symbol is target or is mapped to it.
HoldingsOf(target) ==
    {symbol \in DOMAIN security_dict :
        \/ symbol = target
        \/ symbol \in DOMAIN MAP_SECURITY /\ MAP_SECURITY[symbol] = target}

C7_ExitStatus ==
    pc = "exited" =>
        /\ error = "" => exit_status = <<0>>
        /\ error = "SystemExit" => exit_status # <<0>>

\* C8: for holdings that all have a map and a positive net worth, the
\* percents of the holdings report add up to 100.
C8_PercentsAddUpTo100 ==
    /\ pc = "mp3"
    /\ DOMAIN security_dict # {}
    /\ networth > 0
    => total_actual_percent = 100

\* C9: the holdings never get an entry under the empty key: consuming a
\* security line without a symbol changes neither holdings, cash nor date
\* and ends nothing.
C9_EmptySymbolLineDropped ==
    [][/\ "" \notin DOMAIN security_dict'
       /\ InLoop /\ Line = EmptySymbolLine =>
              /\ lineno' = lineno + 1
              /\ UNCHANGED <<security_dict, cash_value, date, bound, pc,
                             error, exit_status, stdout>>]_vars

\* C9's case: a security line without a symbol has just been consumed.
C9_Witness ==
    /\ pc = "parse"
    /\ lineno > 0
    /\ file[lineno] = EmptySymbolLine
    /\ security_dict # EmptyDict

\* C10: a run ends in one of two ways only: both reports complete, or an
\* abort at the first fatal parse or map error (the exit() of the parser or
\* of map_key_to_mp3, or float() failing on the line being parsed).
C10_TwoWaysToEnd ==
    pc = "exited" => error \in {"", "SystemExit", "ValueError"}

====
